---------------------------- MODULE Spec2Model ----------------------------
(* A model of the two cores of the aipp desktop assistant:                  *)
(*   - the attachment ingest commands of src-tauri/src/api/attachment_api.rs *)
(*     (add_attachment_by_url, add_attachment_content) over the attachment   *)
(*     repository;                                                           *)
(*   - AnthropicProvider::chat_stream of src-tauri/src/api/llm/anthropic.rs, *)
(*     the decode loop over the response body, the output channel and the    *)
(*     cancellation token.                                                   *)
(* Text is modelled as a sequence of tokens, each token a string: a single   *)
(* byte where the code looks at bytes, a fixed piece of text otherwise.      *)
EXTENDS Integers, Sequences, FiniteSets, TLC

VARIABLES
    \* ---- attachment store ----
    rows,        \* the attachment table, in insertion order
    apc,         \* per ingest call: "idle", "create" (between read and create), "done"
    areq,        \* per ingest call: the call's locals
    ares,        \* per ingest call: its result
    \* ---- chat_stream ----
    pc,          \* where the chat_stream future is: "request", "recv", "decode", "send", "done"
    frames,      \* the response body the server sends, frame by frame
    wire,        \* bytes of the body the transport has not delivered yet
    buffer,      \* let mut buffer
    full_text,   \* let mut full_text
    pending,     \* the update chat_stream is suspended on in tx.send
    after,       \* where chat_stream goes once that send completes
    queued,      \* number of updates in the channel not yet received
    cancel,      \* the CancellationToken, and where chat_stream stood when it fired
    sent,        \* every update the channel accepted, in order
    decoded,     \* the decode outcome of every frame extracted, in order
    stopAt,      \* number of frames extracted when the terminal marker was decoded, 0 before
    result,      \* what chat_stream returned, "none" while it runs
    \* ---- chat ----
    cpc,         \* where the chat future is: "build", "request", "json", "done"
    cin,         \* the arguments of the call and the provider's config
    sbody,       \* the request chat_stream builds from the same arguments
    cbody,       \* let body = json!({..}), once built
    cnet,        \* how far the network has got with the request
    ctok,        \* chat's CancellationToken, and how far things were when it fired
    cres         \* what chat returned

avars == <<rows, apc, areq, ares>>

svars == <<pc, frames, wire, buffer, full_text, pending, after, queued,
           cancel, sent, decoded, stopAt, result>>

cvars == <<cpc, cin, cbody, cnet, ctok, cres, sbody>>

vars == <<rows, apc, areq, ares, pc, frames, wire, buffer, full_text,
          pending, after, queued, cancel, sent, decoded, stopAt, result,
          cpc, cin, cbody, cnet, ctok, cres, sbody>>

(***************************************************************************)
(* Bounds of the model.                                                    *)
(***************************************************************************)
\* number of ingest calls that may be in flight together
NumCalls == 2
\* largest number of frames in a response body
MaxFrames == 3
\* capacity of the output channel
ChanCap == 1
\* largest number of turns in a conversation
MaxTurns == 3
\* largest number of attachments on a turn
MaxAttachments == 2

(***************************************************************************)
(* Sequence helpers.                                                       *)
(***************************************************************************)
Last(s) == s[Len(s)]

Drop(s, n) == SubSeq(s, n + 1, Len(s))

(***************************************************************************)
(* Attachment store.                                                       *)
(***************************************************************************)
Procs == 1..NumCalls

\* base64::encode: three bytes to four characters, '=' padding.
B64Alphabet ==
    <<"A","B","C","D","E","F","G","H","I","J","K","L","M","N","O","P",
      "Q","R","S","T","U","V","W","X","Y","Z","a","b","c","d","e","f",
      "g","h","i","j","k","l","m","n","o","p","q","r","s","t","u","v",
      "w","x","y","z","0","1","2","3","4","5","6","7","8","9","+","/">>

B64Char(n) == B64Alphabet[n + 1]

RECURSIVE Base64(_)
Base64(bytes) ==
    IF bytes = <<>> THEN <<>>
    ELSE IF Len(bytes) = 1 THEN
        <<B64Char(bytes[1] \div 4), B64Char((bytes[1] % 4) * 16), "=", "=">>
    ELSE IF Len(bytes) = 2 THEN
        <<B64Char(bytes[1] \div 4),
          B64Char((bytes[1] % 4) * 16 + bytes[2] \div 16),
          B64Char((bytes[2] % 16) * 4), "=">>
    ELSE
        <<B64Char(bytes[1] \div 4),
          B64Char((bytes[1] % 4) * 16 + bytes[2] \div 16),
          B64Char((bytes[2] % 16) * 4 + bytes[3] \div 64),
          B64Char(bytes[3] % 64)>> \o Base64(Drop(bytes, 3))

\* Sha256 over a string's bytes, hex::encode'd: collision free on the model's contents.
Digest(content) == [alg |-> "sha256", of |-> content]

\* The files of the model: what Path::exists, mime_guess::from_path and the reads give.
Paths == {"a.png", "b.png", "c.jpg", "d.txt", "e.png", "f.bin", "g.bmp", "gone.png"}

FileExists(path) == path # "gone.png"

\* mime_guess::from_path(..).first_or_octet_stream(), by extension
MimeOf(path) ==
    CASE path \in {"a.png", "b.png", "e.png", "gone.png"} ->
             [major |-> "image", full |-> "image/png"]
      [] path = "c.jpg" -> [major |-> "image", full |-> "image/jpeg"]
      [] path = "d.txt" -> [major |-> "text", full |-> "text/plain"]
      [] path = "g.bmp" -> [major |-> "image", full |-> "image/bmp"]
      [] OTHER -> [major |-> "application", full |-> "application/octet-stream"]

\* e.png is an empty file
FileBytes(path) ==
    CASE path \in {"a.png", "b.png"} -> <<137, 80>>
      [] path = "c.jpg" -> <<255, 216, 255>>
      [] path = "e.png" -> <<>>
      [] path = "g.bmp" -> <<66>>
      [] OTHER -> <<0>>

FileText(path) == IF path = "d.txt" THEN <<"h", "i">> ELSE <<>>

\* file_type_classify
Classify(mime) ==
    IF mime.major = "text" THEN "text"
    ELSE IF mime.major = "image" THEN "image"
    ELSE ""

\* every image subtype taken for a supported one
AnyImageSubtype == {"image/jpeg", "image/png", "image/gif", "image/webp", "image/bmp"}

SupportedImages == {"image/jpeg", "image/png", "image/gif", "image/webp"}

\* "data:<mime>;base64," + base64_str
DataUri(mimeFull, base64_str) == <<"data:", mimeFull, ";base64,">> \o base64_str

\* what add_attachment_content may be handed
InlineContents == {DataUri("image/png", Base64(<<137, 80>>)), <<"h", "i">>, <<"n", "o">>}

InlineNames == {"pasted"}

\* attachment_type: i64, and what AttachmentType::try_from makes of it
DeclaredKinds == {"Image", "Text", "Invalid"}

NoReq == [route |-> "none", origin |-> "", kind |-> "", content |-> <<>>, hash |-> Digest(<<>>)]

NoRes == [status |-> "none", id |-> 0]

Err(status) == [status |-> status, id |-> 0]

Ok(id) == [status |-> "ok", id |-> id]

NewRow(id, kind, origin, content, hash) ==
    [id |-> id, message_id |-> -1, attachment_type |-> kind, attachment_url |-> origin,
     attachment_content |-> content, attachment_hash |-> hash,
     use_vector |-> FALSE, token_count |-> 0]

\* AttachmentRepository::read_by_attachment_hash: the rows a lookup may return
RowsByHash(hash) == {i \in 1..Len(rows) : rows[i].attachment_hash = hash}

\* AttachmentRepository::create: the id the table gives the next row
NextRowId == Len(rows) + 1

\* a hash over the base64 payload alone, without the "data:<mime>;base64," prefix
UrlHashOfPayload(reader) ==
    Digest(IF Len(reader) > 0 /\ Head(reader) = "data:" THEN Drop(reader, 3) ELSE reader)

\* let mut hasher = Sha256::new(); hasher.update(reader.as_bytes()); hex::encode(..)
UrlHash(reader) == Digest(reader)

\* hasher.update(file_content.clone()); hex::encode(..)
ContentHash(file_content) == Digest(file_content)

Finish(p, res) ==
    /\ apc' = [apc EXCEPT ![p] = "done"]
    /\ ares' = [ares EXCEPT ![p] = res]

\* a lookup whose answer is not looked at: every call goes on to create a row
LookupNoDedup(p, req, readOk) ==
    /\ areq' = [areq EXCEPT ![p] = req]
    /\ rows' = rows
    /\ IF ~readOk THEN Finish(p, Err("Persistence"))
       ELSE /\ apc' = [apc EXCEPT ![p] = "create"]
            /\ UNCHANGED ares

\* a lookup that brings the row it finds up to date with the caller's origin
LookupTouches(p, req, readOk) ==
    /\ areq' = [areq EXCEPT ![p] = req]
    /\ IF ~readOk THEN rows' = rows /\ Finish(p, Err("Persistence"))
       ELSE IF RowsByHash(req.hash) # {}
       THEN \E i \in RowsByHash(req.hash) :
                /\ rows' = [rows EXCEPT ![i].attachment_url = req.origin]
                /\ Finish(p, Ok(rows[i].id))
       ELSE /\ rows' = rows
            /\ apc' = [apc EXCEPT ![p] = "create"]
            /\ UNCHANGED ares

\* The lookup both commands share: a row with the hash is returned as it is,
\* otherwise the call goes on to create one.
Lookup(p, req, readOk) ==
    /\ areq' = [areq EXCEPT ![p] = req]
    /\ rows' = rows
    /\ IF ~readOk THEN Finish(p, Err("Persistence"))
       ELSE IF RowsByHash(req.hash) # {}
       THEN \E i \in RowsByHash(req.hash) : Finish(p, Ok(rows[i].id))
       ELSE /\ apc' = [apc EXCEPT ![p] = "create"]
            /\ UNCHANGED ares

Fail(p, req, status) ==
    /\ areq' = [areq EXCEPT ![p] = req]
    /\ rows' = rows
    /\ Finish(p, Err(status))

\* add_attachment_by_url up to and including read_by_attachment_hash
AddAttachmentByUrl(p, file_url, dbOk, ioOk, readOk) ==
    /\ apc[p] = "idle"
    /\ LET mime == MimeOf(file_url)
           cls == Classify(mime)
           req0 == [NoReq EXCEPT !.route = "url", !.origin = file_url]
       IN  IF ~FileExists(file_url) THEN Fail(p, req0, "NotFound")
           ELSE IF ~dbOk THEN Fail(p, req0, "Persistence")
           ELSE IF cls = "image" THEN
               IF ~ioOk THEN Fail(p, req0, "Io")
               ELSE IF mime.full \notin SupportedImages THEN Fail(p, req0, "UnsupportedType")
               ELSE LET reader == DataUri(mime.full, Base64(FileBytes(file_url)))
                    IN  Lookup(p, [req0 EXCEPT !.kind = "Image", !.content = reader,
                                               !.hash = UrlHash(reader)], readOk)
           ELSE IF cls = "text" THEN
               IF ~ioOk THEN Fail(p, req0, "Io")
               ELSE LET reader == FileText(file_url)
                    IN  Lookup(p, [req0 EXCEPT !.kind = "Text", !.content = reader,
                                               !.hash = UrlHash(reader)], readOk)
           ELSE Fail(p, req0, "UnsupportedType")

\* add_attachment_content up to and including read_by_attachment_hash
AddAttachmentContent(p, file_content, file_name, attachment_type, dbOk, readOk) ==
    /\ apc[p] = "idle"
    /\ LET req0 == [NoReq EXCEPT !.route = "content", !.origin = file_name,
                                 !.kind = attachment_type, !.content = file_content]
       IN  IF ~dbOk THEN Fail(p, req0, "Persistence")
           ELSE Lookup(p, [req0 EXCEPT !.hash = ContentHash(file_content)], readOk)

\* a create that leaves its row behind when it reports a failure
CreateLeavesRow(p, createOk) ==
    /\ apc[p] = "create"
    /\ areq' = areq
    /\ rows' = Append(rows, NewRow(NextRowId, areq[p].kind, areq[p].origin,
                                   areq[p].content, areq[p].hash))
    /\ IF createOk THEN Finish(p, Ok(NextRowId)) ELSE Finish(p, Err("Persistence"))

\* The None arm of either command: attachment_repo().create(..), then the new id.
Create(p, createOk) ==
    /\ apc[p] = "create"
    /\ areq' = areq
    /\ IF areq[p].route = "content" /\ areq[p].kind = "Invalid"
       THEN /\ rows' = rows
            /\ Finish(p, Err("panic"))
       ELSE IF ~createOk
       THEN /\ rows' = rows
            /\ Finish(p, Err("Persistence"))
       ELSE /\ rows' = Append(rows, NewRow(NextRowId, areq[p].kind, areq[p].origin,
                                           areq[p].content, areq[p].hash))
            /\ Finish(p, Ok(NextRowId))

\* No other ingest call is between its start and its return.
Alone(p) == \A q \in Procs \ {p} : apc[q] \in {"idle", "done"}

IngestStart(p) ==
    \/ \E file_url \in Paths, dbOk \in BOOLEAN, ioOk \in BOOLEAN, readOk \in BOOLEAN :
           AddAttachmentByUrl(p, file_url, dbOk, ioOk, readOk)
    \/ \E file_content \in InlineContents, file_name \in InlineNames,
          attachment_type \in DeclaredKinds, dbOk \in BOOLEAN, readOk \in BOOLEAN :
           AddAttachmentContent(p, file_content, file_name, attachment_type, dbOk, readOk)

IngestCreate(p) == \E createOk \in BOOLEAN : Create(p, createOk)

(***************************************************************************)
(* chat_stream: the bytes on the wire.                                     *)
(***************************************************************************)
LF == "LF"

\* the JSON payloads of the model, each one token but for the text of a delta
DeltaOpen == "{type:content_block_delta,delta:{type:text_delta,text:'"

DeltaClose == "'}}"

StopJson == "{type:message_stop}"

PingJson == "{type:ping}"

MessageDeltaJson == "{type:message_delta,delta:{stop_reason:end_turn}}"

ErrorJson == "{type:error,error:{type:overloaded_error,message:Overloaded}}"

DataMarker == "data: "

\* the bytes a text fragment is made of: two ASCII characters and the two bytes
\* of one two-byte character
Utf8Lead == "C3"

Utf8Cont == "A9"

TextBytes == {"a", "b", Utf8Lead, Utf8Cont}

\* a check that lets every chunk through, as a lossy conversion would
Utf8ValidLossy(chunk) == chunk = chunk

\* std::str::from_utf8(&chunk).is_ok()
Utf8Valid(chunk) ==
    \A i \in 1..Len(chunk) :
        /\ chunk[i] = Utf8Lead => (i < Len(chunk) /\ chunk[i + 1] = Utf8Cont)
        /\ chunk[i] = Utf8Cont => (i > 1 /\ chunk[i - 1] = Utf8Lead)

\* The frames a body is made of.
FrameDeltaA == <<"event: content_block_delta", LF, DataMarker, DeltaOpen, "a", DeltaClose>>

FrameDeltaWide == <<DataMarker, DeltaOpen, Utf8Lead, Utf8Cont, DeltaClose>>

FrameStop == <<"event: message_stop", LF, DataMarker, StopJson>>

FrameMessageDelta == <<DataMarker, MessageDeltaJson>>

FrameError == <<"event: error", LF, DataMarker, ErrorJson>>

FrameCorrupt == <<DataMarker, DeltaOpen, "b">>

FramePing == <<"event: ping", LF, DataMarker, PingJson>>

\* the frames chat_stream passes over: an error frame, an undecodable frame, a
\* delta without text and an event it does not know
PassedOverFrames == {FrameError, FrameCorrupt, FrameMessageDelta, FramePing}

\* bodies with such frames before and between text deltas
PassedOverBodies ==
    {<<FrameDeltaA, f, FrameDeltaWide>> : f \in PassedOverFrames}
        \cup {<<f, g, FrameDeltaA>> : f \in PassedOverFrames, g \in PassedOverFrames}

\* the frames the bodies of the model are made of
FrameSet == {FrameDeltaA, FrameDeltaWide, FrameStop, FrameError, FrameCorrupt}

\* the JSON payloads a frame may carry
Payloads ==
    {<<DeltaOpen, "a", DeltaClose>>, <<DeltaOpen, Utf8Lead, Utf8Cont, DeltaClose>>,
     <<StopJson>>, <<PingJson>>, <<MessageDeltaJson>>, <<ErrorJson>>, <<DeltaOpen, "b">>}

\* the event names the provider's stream puts before a payload
EventNames ==
    {"event: message_start", "event: content_block_start", "event: ping",
     "event: content_block_delta", "event: content_block_stop",
     "event: message_delta", "event: message_stop"}

\* a payload as a frame: bare, after "data: ", after an event line and "data: "
Framings(payload) ==
    {payload, <<DataMarker>> \o payload}
        \cup {<<e, LF, DataMarker>> \o payload : e \in EventNames}

FramedPayloads == UNION {Framings(payload) : payload \in Payloads}

Separator == <<LF, LF>>

RECURSIVE Body(_)
Body(fs) == IF fs = <<>> THEN <<>> ELSE Head(fs) \o Separator \o Body(Tail(fs))

Bodies == UNION {[1..n -> FrameSet] : n \in 1..MaxFrames}

(***************************************************************************)
(* chat_stream: the decoder's pure steps.                                  *)
(***************************************************************************)
\* buffer.find("\n\n"): the index of the first blank line, 0 when there is none
RECURSIVE FindFrom(_, _)
FindFrom(s, i) ==
    IF i + 1 > Len(s) THEN 0
    ELSE IF s[i] = LF /\ s[i + 1] = LF THEN i
    ELSE FindFrom(s, i + 1)

Find(s) == FindFrom(s, 1)

\* a drain that stops at the first byte of the blank line
DrainShort(buf, index) == Drop(buf, index)

\* buffer.drain(..=index + 1): the frame and both bytes of the blank line go
Drain(buf, index) == Drop(buf, index + 1)

\* str::trim_start_matches(pat) for a pattern that is one token
RECURSIVE TrimStartMatches(_, _)
TrimStartMatches(s, pat) ==
    IF s # <<>> /\ Head(s) = pat THEN TrimStartMatches(Tail(s), pat) ELSE s

Whitespace == {LF, " "}

\* str::trim_start()
RECURSIVE TrimStart(_)
TrimStart(s) == IF s # <<>> /\ Head(s) \in Whitespace THEN TrimStart(Tail(s)) ELSE s

RECURSIVE TrimEnd(_)
TrimEnd(s) ==
    IF s # <<>> /\ Last(s) \in Whitespace THEN TrimEnd(SubSeq(s, 1, Len(s) - 1)) ELSE s

\* s.trim_start().strip_prefix("data: ").unwrap_or(s)
StripData(s) ==
    LET t == TrimStart(s)
    IN  IF t # <<>> /\ Head(t) = DataMarker THEN Tail(t) ELSE s

\* a list that names only the events chat_stream reads a payload of
KnownEventsShort == <<"event: content_block_delta", "event: message_stop">>

KnownEvents ==
    <<"event: message_start", "event: content_block_start", "event: ping",
      "event: content_block_delta", "event: content_block_stop",
      "event: message_delta", "event: message_stop">>

RECURSIVE TrimEvents(_, _)
TrimEvents(s, events) ==
    IF events = <<>> THEN s
    ELSE TrimEvents(TrimStartMatches(s, Head(events)), Tail(events))

\* processed_chunk, then cleaned_string
Normalize(chunk) == StripData(TrimEvents(chunk, KnownEvents))

\* a decoder that takes a delta payload cut off inside its text for a delta
ParseChunkLenient(s) ==
    LET j == TrimEnd(TrimStart(s))
    IN  IF /\ Len(j) >= 1
           /\ Head(j) = DeltaOpen
           /\ \A i \in 2..Len(j) : j[i] \in TextBytes \cup {DeltaClose}
        THEN [ok |-> TRUE, delta |-> TRUE,
              text |-> <<SelectSeq(Tail(j), LAMBDA c : c \in TextBytes)>>,
              event_type |-> "content_block_delta"]
        ELSE IF j = <<StopJson>>
        THEN [ok |-> TRUE, delta |-> FALSE, text |-> <<>>, event_type |-> "message_stop"]
        ELSE [ok |-> FALSE, delta |-> FALSE, text |-> <<>>, event_type |-> ""]

\* serde_json::from_str::<AnthropicChatCompletionChunk>: JSON between optional
\* whitespace; "ok" is FALSE for Err(_), "delta" tells d.delta.is_some(), "text" is
\* delta.text as a sequence of at most one string.
ParseChunk(s) ==
    LET j == TrimEnd(TrimStart(s))
        no == [ok |-> FALSE, delta |-> FALSE, text |-> <<>>, event_type |-> ""]
    IN  IF j = <<StopJson>>
        THEN [ok |-> TRUE, delta |-> FALSE, text |-> <<>>, event_type |-> "message_stop"]
        ELSE IF j = <<PingJson>>
        THEN [ok |-> TRUE, delta |-> FALSE, text |-> <<>>, event_type |-> "ping"]
        ELSE IF j = <<ErrorJson>>
        THEN [ok |-> TRUE, delta |-> FALSE, text |-> <<>>, event_type |-> "error"]
        ELSE IF j = <<MessageDeltaJson>>
        THEN [ok |-> TRUE, delta |-> TRUE, text |-> <<>>, event_type |-> "message_delta"]
        ELSE IF /\ Len(j) >= 2
                /\ Head(j) = DeltaOpen
                /\ Last(j) = DeltaClose
                /\ \A i \in 2..(Len(j) - 1) : j[i] \in TextBytes
        THEN [ok |-> TRUE, delta |-> TRUE, text |-> <<SubSeq(j, 2, Len(j) - 1)>>,
              event_type |-> "content_block_delta"]
        ELSE no

\* serde_json::from_str::<AnthropicErrorMessage> of the frame once "event: error"
\* and "data: " are stripped
ParseError(cleaned_string) ==
    TrimEnd(TrimStart(StripData(TrimStartMatches(cleaned_string, "event: error")))) = <<ErrorJson>>

\* What one extracted frame is to the decoder.
FrameKind(chunk) ==
    LET d == ParseChunk(Normalize(chunk))
    IN  IF d.ok THEN
            IF d.delta THEN (IF d.text # <<>> THEN "text" ELSE "delta_without_text")
            ELSE IF d.event_type = "message_stop" THEN "stop"
            ELSE "unknown"
        ELSE IF ParseError(Normalize(chunk)) THEN "error"
        ELSE "undecodable"

FrameText(chunk) == ParseChunk(Normalize(chunk)).text[1]

(***************************************************************************)
(* chat_stream: the future, the transport, the channel and the token.      *)
(***************************************************************************)
Update(text, is_final) == [cumulative_text |-> text, is_final |-> is_final]

NoUpdate == Update(<<>>, FALSE)

Cancelled == cancel.fired

\* an inner loop that sends the fragment of the frame instead of the text so far
RECURSIVE InnerLoopSendsDelta(_, _, _, _)
InnerLoopSendsDelta(buf, text, dec, stop) ==
    LET index == Find(buf)
        chunk == SubSeq(buf, 1, index - 1)
        rest == Drop(buf, index + 1)
        kind == FrameKind(chunk)
    IN  IF index = 0
        THEN [pc |-> "recv", buffer |-> buf, full_text |-> text, decoded |-> dec,
              stopAt |-> stop, pending |-> NoUpdate, after |-> ""]
        ELSE IF kind = "text"
        THEN [pc |-> "send", buffer |-> rest, full_text |-> text \o FrameText(chunk),
              decoded |-> Append(dec, kind), stopAt |-> stop,
              pending |-> Update(FrameText(chunk), FALSE), after |-> "loop"]
        ELSE IF kind = "stop"
        THEN [pc |-> "send", buffer |-> rest, full_text |-> text,
              decoded |-> Append(dec, kind),
              stopAt |-> IF stop = 0 THEN Len(dec) + 1 ELSE stop,
              pending |-> Update(text, TRUE), after |-> "break"]
        ELSE InnerLoopSendsDelta(rest, text, Append(dec, kind), stop)

\* an inner loop that sends an update for every frame it extracts
RECURSIVE InnerLoopUpdatesAlways(_, _, _, _)
InnerLoopUpdatesAlways(buf, text, dec, stop) ==
    LET index == Find(buf)
        chunk == SubSeq(buf, 1, index - 1)
        rest == Drain(buf, index)
        kind == FrameKind(chunk)
    IN  IF index = 0
        THEN [pc |-> "recv", buffer |-> buf, full_text |-> text, decoded |-> dec,
              stopAt |-> stop, pending |-> NoUpdate, after |-> ""]
        ELSE IF kind = "text"
        THEN [pc |-> "send", buffer |-> rest, full_text |-> text \o FrameText(chunk),
              decoded |-> Append(dec, kind), stopAt |-> stop,
              pending |-> Update(text \o FrameText(chunk), FALSE), after |-> "loop"]
        ELSE IF kind = "stop"
        THEN [pc |-> "send", buffer |-> rest, full_text |-> text,
              decoded |-> Append(dec, kind),
              stopAt |-> IF stop = 0 THEN Len(dec) + 1 ELSE stop,
              pending |-> Update(text, TRUE), after |-> "break"]
        ELSE [pc |-> "send", buffer |-> rest, full_text |-> text,
              decoded |-> Append(dec, kind), stopAt |-> stop,
              pending |-> Update(text, FALSE), after |-> "loop"]

\* The inner loop from its top to its next await or to its end: frames are
\* extracted one by one; a text delta and the terminal marker suspend in tx.send,
\* every other frame is logged and passed over; without a blank line in the buffer
\* the loop is left for the outer select!.  Yields the locals at that point.
RECURSIVE InnerLoop(_, _, _, _)
InnerLoop(buf, text, dec, stop) ==
    LET index == Find(buf)
        chunk == SubSeq(buf, 1, index - 1)
        rest == Drain(buf, index)
        kind == FrameKind(chunk)
    IN  IF index = 0
        THEN [pc |-> "recv", buffer |-> buf, full_text |-> text, decoded |-> dec,
              stopAt |-> stop, pending |-> NoUpdate, after |-> ""]
        ELSE IF kind = "text"
        THEN [pc |-> "send", buffer |-> rest, full_text |-> text \o FrameText(chunk),
              decoded |-> Append(dec, kind), stopAt |-> stop,
              pending |-> Update(text \o FrameText(chunk), FALSE), after |-> "loop"]
        ELSE IF kind = "stop"
        THEN [pc |-> "send", buffer |-> rest, full_text |-> text,
              decoded |-> Append(dec, kind),
              stopAt |-> IF stop = 0 THEN Len(dec) + 1 ELSE stop,
              pending |-> Update(text, TRUE), after |-> "break"]
        ELSE InnerLoop(rest, text, Append(dec, kind), stop)

Resume(st) ==
    /\ pc' = st.pc
    /\ buffer' = st.buffer
    /\ full_text' = st.full_text
    /\ decoded' = st.decoded
    /\ stopAt' = st.stopAt
    /\ pending' = st.pending
    /\ after' = st.after

\* return: the future ends and drops its locals
Return(r) ==
    /\ pc' = "done"
    /\ result' = r
    /\ buffer' = <<>>
    /\ full_text' = <<>>
    /\ pending' = NoUpdate
    /\ after' = ""

\* request.send() resolved with a response: on to the decode loop
RequestSent ==
    /\ pc = "request"
    /\ pc' = "recv"
    /\ UNCHANGED <<frames, wire, buffer, full_text, pending, after, queued,
                   cancel, sent, decoded, stopAt, result>>
    /\ UNCHANGED avars
    /\ UNCHANGED cvars

\* request.send() resolved with an error: response?
RequestFailed ==
    /\ pc = "request"
    /\ Return("err_transport")
    /\ UNCHANGED <<frames, wire, queued, cancel, sent, decoded, stopAt>>
    /\ UNCHANGED avars
    /\ UNCHANGED cvars

\* the cancelled() arm of the first select!: Err("Request cancelled")
RequestCancelled ==
    /\ pc = "request"
    /\ Cancelled
    /\ Return("err_cancelled")
    /\ UNCHANGED <<frames, wire, queued, cancel, sent, decoded, stopAt>>
    /\ UNCHANGED avars
    /\ UNCHANGED cvars

\* Some(Ok(chunk)): the transport hands over the next k bytes of the body; they are
\* checked, appended to the buffer, and the inner loop starts
RecvChunk(k) ==
    /\ pc = "recv"
    /\ k \in 1..Len(wire)
    /\ IF Utf8Valid(SubSeq(wire, 1, k))
       THEN /\ wire' = Drop(wire, k)
            /\ Resume(InnerLoop(buffer \o SubSeq(wire, 1, k), full_text, decoded, stopAt))
            /\ result' = result
       ELSE /\ Return("err_utf8")
            /\ UNCHANGED <<wire, decoded, stopAt>>
    /\ UNCHANGED <<frames, queued, cancel, sent>>
    /\ UNCHANGED avars
    /\ UNCHANGED cvars

\* a transport error answered with a final update before the error is returned
RecvErrorWithSentinel ==
    /\ pc = "recv"
    /\ queued < ChanCap
    /\ sent' = Append(sent, Update(full_text, TRUE))
    /\ queued' = queued + 1
    /\ Return("err_transport")
    /\ UNCHANGED <<frames, wire, cancel, decoded, stopAt>>
    /\ UNCHANGED avars
    /\ UNCHANGED cvars

\* Some(Err(e)) => return Err(e.into())
RecvError ==
    /\ pc = "recv"
    /\ Return("err_transport")
    /\ UNCHANGED <<frames, wire, queued, cancel, sent, decoded, stopAt>>
    /\ UNCHANGED avars
    /\ UNCHANGED cvars

\* The body is over when every frame was delivered, or every frame but for the
\* blank line after the last one.
BodyOver == wire = <<>> \/ wire = Separator

\* an end of the body that still decodes what is left in the buffer
RecvEndFlushes ==
    /\ pc = "recv"
    /\ BodyOver
    /\ decoded' = IF buffer # <<>> THEN Append(decoded, FrameKind(buffer)) ELSE decoded
    /\ Return("ok")
    /\ UNCHANGED <<frames, wire, queued, cancel, sent, stopAt>>
    /\ UNCHANGED avars
    /\ UNCHANGED cvars

\* None => break, then Ok(())
RecvEnd ==
    /\ pc = "recv"
    /\ BodyOver
    /\ Return("ok")
    /\ UNCHANGED <<frames, wire, queued, cancel, sent, decoded, stopAt>>
    /\ UNCHANGED avars
    /\ UNCHANGED cvars

\* a cancelled() arm that is never taken: the loop goes on waiting for the transport
RecvCancelledLost ==
    /\ pc = "recv"
    /\ Cancelled
    /\ UNCHANGED svars
    /\ UNCHANGED avars
    /\ UNCHANGED cvars

\* the cancelled() arm of the loop's select!: send the final update, then Ok(())
RecvCancelled ==
    /\ pc = "recv"
    /\ Cancelled
    /\ pc' = "send"
    /\ pending' = Update(full_text, TRUE)
    /\ after' = "return"
    /\ UNCHANGED <<frames, wire, buffer, full_text, queued, cancel,
                   sent, decoded, stopAt, result>>
    /\ UNCHANGED avars
    /\ UNCHANGED cvars

\* a failed send whose error is dropped: the loop goes on with the next frame
SendFailedGoesOn ==
    /\ pc = "send"
    /\ after # "return"
    /\ IF after = "break"
       THEN /\ pc' = "recv"
            /\ pending' = NoUpdate
            /\ after' = ""
            /\ UNCHANGED <<buffer, full_text, decoded, stopAt>>
       ELSE Resume(InnerLoop(buffer, full_text, decoded, stopAt))
    /\ UNCHANGED <<frames, wire, queued, cancel, sent, result>>
    /\ UNCHANGED avars
    /\ UNCHANGED cvars

\* tx.send(..).await? resolves with Err: the consumer has dropped the receiver
SendFailed ==
    /\ pc = "send"
    /\ Return("err_send")
    /\ UNCHANGED <<frames, wire, queued, cancel, sent, decoded, stopAt>>
    /\ UNCHANGED avars
    /\ UNCHANGED cvars

\* tx.send(..).await? resolves with Ok once the channel has room; chat_stream goes
\* on from the send: the next turn of the inner loop after a text delta, the outer
\* select! after the terminal marker's break, Ok(()) after the cancellation's update
SendDone ==
    /\ pc = "send"
    /\ queued < ChanCap
    /\ sent' = Append(sent, pending)
    /\ queued' = queued + 1
    /\ IF after = "return"
       THEN /\ Return("ok")
            /\ UNCHANGED <<wire, decoded, stopAt>>
       ELSE IF after = "break"
       THEN /\ pc' = "recv"
            /\ pending' = NoUpdate
            /\ after' = ""
            /\ UNCHANGED <<wire, buffer, full_text, decoded, stopAt, result>>
       ELSE /\ Resume(InnerLoop(buffer, full_text, decoded, stopAt))
            /\ UNCHANGED <<wire, result>>
    /\ UNCHANGED <<frames, cancel>>
    /\ UNCHANGED avars
    /\ UNCHANGED cvars

\* while chat_stream runs, the consumer takes one update off the channel
Consume ==
    /\ pc # "done"
    /\ queued > 0
    /\ queued' = queued - 1
    /\ UNCHANGED <<pc, frames, wire, buffer, full_text, pending, after,
                   cancel, sent, decoded, stopAt, result>>
    /\ UNCHANGED avars
    /\ UNCHANGED cvars

\* cancel_token.cancel(), by whoever holds the token
Cancel ==
    /\ ~Cancelled
    /\ pc # "done"
    /\ cancel' = [fired |-> TRUE, phase |-> IF pc = "request" THEN "request" ELSE "stream"]
    /\ UNCHANGED <<pc, frames, wire, buffer, full_text, pending, after,
                   queued, sent, decoded, stopAt, result>>
    /\ UNCHANGED avars
    /\ UNCHANGED cvars

(***************************************************************************)
(* The request chat and chat_stream build from the turns and the configs.  *)
(***************************************************************************)
\* MessageAttachment, as far as the providers read it
Attachment(kind, content) == [attachment_type |-> kind, attachment_content |-> content]

\* rows the ingest commands create: from a.png, from c.jpg, from the empty e.png,
\* from inline text declared an image, and from inline text declared text
ImagePng == Attachment("Image", DataUri("image/png", Base64(FileBytes("a.png"))))

ImageJpeg == Attachment("Image", DataUri("image/jpeg", Base64(FileBytes("c.jpg"))))

ImageEmpty == Attachment("Image", DataUri("image/png", Base64(FileBytes("e.png"))))

ImageNoUri == Attachment("Image", <<"h", "i">>)

TextNote == Attachment("Text", <<"h", "i">>)

Attachments == {ImagePng, ImageJpeg, ImageEmpty, ImageNoUri, TextNote}

AttachmentLists == UNION {[1..n -> Attachments] : n \in 0..MaxAttachments}

\* one element of messages: (message_type, content, attachment_list)
Turn(message_type, content, attachment_list) ==
    [message_type |-> message_type, content |-> content,
     attachment_list |-> attachment_list]

PlainTurns == {Turn(r, c, <<>>) : r \in {"system", "user", "assistant"}, c \in {"t1", "t2"}}

AttachedTurns == {Turn("user", "t1", l) : l \in AttachmentLists \ {<<>>}}

\* the conversations of the model: any turns without attachments, and a turn with
\* attachments alone or after a system turn
MessageLists ==
    UNION {[1..n -> PlainTurns] : n \in 0..MaxTurns}
        \cup {<<t>> : t \in AttachedTurns}
        \cup {<<Turn("system", "t2", <<>>), t>> : t \in AttachedTurns}

\* AssistantModelConfig: name and value: Option<String>, None being <<>>
Entry(name, value) == [name |-> name, value |-> value]

ConfigOptions == {"absent", "novalue", "0.5", "7", "abc", "NaN", "3000000000"}

EntryOf(name, opt) ==
    IF opt = "absent" THEN <<>>
    ELSE IF opt = "novalue" THEN <<Entry(name, <<>>)>>
    ELSE <<Entry(name, <<opt>>)>>

ModelConfigs ==
    {EntryOf("temperature", a) \o EntryOf("top_p", b) \o EntryOf("max_tokens", c) :
         a \in ConfigOptions, b \in ConfigOptions, c \in ConfigOptions}

\* LLMProviderConfig: name and value: String, a value being the tokens it is made of
ProviderEntry(name, value) == [name |-> name, value |-> value]

\* an endpoint or none, with and without a trailing slash; a credential or none
ProviderConfigs ==
    {e \o k : e \in {<<>>, <<ProviderEntry("endpoint", <<"https://proxy.example">>)>>,
                     <<ProviderEntry("endpoint", <<"https://proxy.example", "/">>)>>},
             k \in {<<>>, <<ProviderEntry("api_key", <<"sk-1">>)>>}}

\* a provider configured with its credential and no endpoint
UsualProvider == <<ProviderEntry("api_key", <<"sk-1">>)>>

\* the calls of the model: every conversation with an empty model_config, one
\* conversation with every model_config, and one conversation with every provider
\* config and every way of naming the model
ChatInputs ==
    {[messages |-> m, model_config |-> <<>>, config |-> UsualProvider] :
         m \in MessageLists}
        \cup {[messages |-> <<Turn("user", "t1", <<>>)>>, model_config |-> c,
               config |-> UsualProvider] : c \in ModelConfigs}
        \cup {[messages |-> <<Turn("user", "t1", <<>>)>>,
               model_config |-> EntryOf("model", m), config |-> p] :
                  m \in {"absent", "novalue", "claude-3"}, p \in ProviderConfigs}

\* config_map.get(key): of two entries with the same name the later one stays
ProviderGet(config, key) ==
    LET idx == {i \in 1..Len(config) : config[i].name = key}
    IN  IF idx = {} THEN <<>>
        ELSE <<config[CHOOSE i \in idx : \A j \in idx : j <= i].value>>

DefaultEndpoint == <<"https://api.anthropic.com">>

\* str::trim_end_matches('/')
RECURSIVE TrimEndMatches(_, _)
TrimEndMatches(s, pat) ==
    IF s # <<>> /\ Last(s) = pat THEN TrimEndMatches(SubSeq(s, 1, Len(s) - 1), pat) ELSE s

\* let url = format!("{}/v1/messages", endpoint)
Url(config) ==
    LET endpoint == IF ProviderGet(config, "endpoint") = <<>> THEN DefaultEndpoint
                    ELSE ProviderGet(config, "endpoint")[1]
    IN  TrimEndMatches(endpoint, "/") \o <<"/v1/messages">>

\* config_map.get("api_key").unwrap() on a config without the key
ApiKeyPanics(config) == ProviderGet(config, "api_key") = <<>>

\* model_config_map.get(key): entries without a value are left out of the map, and
\* of two entries with the same name the later one stays
ConfigGet(model_config, key) ==
    LET idx == {i \in 1..Len(model_config) :
                    model_config[i].name = key /\ model_config[i].value # <<>>}
    IN  IF idx = {} THEN <<>>
        ELSE model_config[CHOOSE i \in idx : \A j \in idx : j <= i].value

\* str::parse::<f64>: decimal numbers, and also "NaN", "inf", "infinity"
ParseF64(v) ==
    CASE v = "0.5" -> [ok |-> TRUE, val |-> "0.5"]
      [] v = "7" -> [ok |-> TRUE, val |-> "7.0"]
      [] v = "3000000000" -> [ok |-> TRUE, val |-> "3000000000.0"]
      [] v = "NaN" -> [ok |-> TRUE, val |-> "NaN"]
      [] OTHER -> [ok |-> FALSE, val |-> ""]

\* str::parse::<i32>: decimal integers within the range of i32
ParseI32(v) ==
    CASE v = "7" -> [ok |-> TRUE, val |-> 7]
      [] OTHER -> [ok |-> FALSE, val |-> 0]

DefaultTemperature == "0.75"

DefaultTopP == "1.0"

DefaultMaxTokens == 2000

\* .get(key).and_then(|v| v.parse().ok()).unwrap_or(default), for a float
F64Param(model_config, key, default) ==
    LET v == ConfigGet(model_config, key)
    IN  IF v # <<>> /\ ParseF64(v[1]).ok THEN ParseF64(v[1]).val ELSE default

\* the same for max_tokens, an i32
I32Param(model_config, key, default) ==
    LET v == ConfigGet(model_config, key)
    IN  IF v # <<>> /\ ParseI32(v[1]).ok THEN ParseI32(v[1]).val ELSE default

\* json!(f64): a number, but null for a float that is not finite
JsonF64(val) == IF val = "NaN" THEN "null" ELSE val

\* Regex data:(?P<media_type>[^;]+);base64,(?P<data>.+) on the content: the first
\* place where "data:", a media type, ";base64," and at least one character follow
\* one another; data runs to the end
RegexCaptures(attachment_content) ==
    LET starts == {i \in 1..(Len(attachment_content) - 3) :
                       /\ attachment_content[i] = "data:"
                       /\ attachment_content[i + 1] # ";base64,"
                       /\ attachment_content[i + 2] = ";base64,"}
        first == CHOOSE i \in starts : \A j \in starts : i <= j
    IN  IF starts = {} THEN [ok |-> FALSE, media_type |-> "", data |-> <<>>]
        ELSE [ok |-> TRUE, media_type |-> attachment_content[first + 1],
              data |-> SubSeq(attachment_content, first + 3, Len(attachment_content))]

ImageBlock(a) ==
    [type |-> "image",
     source |-> [type |-> "base64",
                 media_type |-> RegexCaptures(a.attachment_content).media_type,
                 data |-> RegexCaptures(a.attachment_content).data],
     text |-> ""]

TextBlock(content) == [type |-> "text", source |-> [type |-> "", media_type |-> "", data |-> <<>>],
                       text |-> content]

\* attachment_list.iter().filter(Image).map(..).collect()
RECURSIVE Images(_)
Images(attachment_list) ==
    IF attachment_list = <<>> THEN <<>>
    ELSE IF Head(attachment_list).attachment_type = "Image"
    THEN <<ImageBlock(Head(attachment_list))>> \o Images(Tail(attachment_list))
    ELSE Images(Tail(attachment_list))

\* the wire message of one turn: "content" is a string, or an array of blocks
JsonMessage(t) ==
    IF Len(t.attachment_list) > 0
    THEN [role |-> t.message_type,
          content |-> [string |-> <<>>,
                       array |-> <<Images(t.attachment_list) \o <<TextBlock(t.content)>>>>]]
    ELSE [role |-> t.message_type,
          content |-> [string |-> <<t.content>>, array |-> <<>>]]

\* re.captures(&attachment_content).unwrap() on an image the pattern does not match
TurnPanics(t) ==
    \E i \in 1..Len(t.attachment_list) :
        /\ t.attachment_list[i].attachment_type = "Image"
        /\ ~RegexCaptures(t.attachment_list[i].attachment_content).ok

NonSystem(messages) == SelectSeq(messages, LAMBDA t : t.message_type # "system")

JsonMessages(messages) ==
    [i \in 1..Len(NonSystem(messages)) |-> JsonMessage(NonSystem(messages)[i])]

BuildPanics(messages) ==
    \E i \in 1..Len(NonSystem(messages)) : TurnPanics(NonSystem(messages)[i])

\* the last system turn instead of the first
SystemMessageLast(messages) ==
    LET idx == {i \in 1..Len(messages) : messages[i].message_type = "system"}
    IN  IF idx = {} THEN <<>>
        ELSE <<messages[CHOOSE i \in idx : \A j \in idx : j <= i].content>>

\* messages.iter().find(|(message_type, _, _)| message_type == "system"), its content
SystemMessage(messages) ==
    LET idx == {i \in 1..Len(messages) : messages[i].message_type = "system"}
    IN  IF idx = {} THEN <<>>
        ELSE <<messages[CHOOSE i \in idx : \A j \in idx : i <= j].content>>

\* let body = json!({..}); an Option is <<>> for null, <<v>> for a value
BuildBody(messages, model_config, stream) ==
    [model |-> ConfigGet(model_config, "model"),
     temperature |-> JsonF64(F64Param(model_config, "temperature", DefaultTemperature)),
     top_p |-> JsonF64(F64Param(model_config, "top_p", DefaultTopP)),
     system |-> SystemMessage(messages),
     max_tokens |-> I32Param(model_config, "max_tokens", DefaultMaxTokens),
     messages |-> JsonMessages(messages),
     stream |-> stream]

\* client.post(&url).header("X-API-Key", api_key).header("anthropic-version", ..)
\* .json(&body): the body's fields, the URL and the two headers
ChatRequest(in) ==
    BuildBody(in.messages, in.model_config, FALSE)
        @@ [url |-> Url(in.config),
            x_api_key |-> ProviderGet(in.config, "api_key")[1],
            anthropic_version |-> "2023-06-01"]

(***************************************************************************)
(* The request as chat_stream builds it: its own copy of the code, from    *)
(* the same library calls.                                                 *)
(***************************************************************************)
\* an endpoint used as it is configured, with its trailing slashes
StreamUrlUntrimmed(config) ==
    LET endpoint == IF ProviderGet(config, "endpoint") = <<>> THEN <<"https://api.anthropic.com">>
                    ELSE ProviderGet(config, "endpoint")[1]
    IN  endpoint \o <<"/v1/messages">>

StreamUrl(config) ==
    LET endpoint == IF ProviderGet(config, "endpoint") = <<>> THEN <<"https://api.anthropic.com">>
                    ELSE ProviderGet(config, "endpoint")[1]
    IN  TrimEndMatches(endpoint, "/") \o <<"/v1/messages">>

StreamJsonMessage(t) ==
    IF Len(t.attachment_list) > 0
    THEN [role |-> t.message_type,
          content |-> [string |-> <<>>,
                       array |-> <<Images(t.attachment_list) \o <<TextBlock(t.content)>>>>]]
    ELSE [role |-> t.message_type,
          content |-> [string |-> <<t.content>>, array |-> <<>>]]

StreamJsonMessages(messages) ==
    LET kept == SelectSeq(messages, LAMBDA t : t.message_type # "system")
    IN  [i \in 1..Len(kept) |-> StreamJsonMessage(kept[i])]

StreamSystemMessage(messages) ==
    LET idx == {i \in 1..Len(messages) : messages[i].message_type = "system"}
    IN  IF idx = {} THEN <<>>
        ELSE <<messages[CHOOSE i \in idx : \A j \in idx : i <= j].content>>

StreamBody(messages, model_config) ==
    [model |-> ConfigGet(model_config, "model"),
     temperature |-> JsonF64(F64Param(model_config, "temperature", "0.75")),
     top_p |-> JsonF64(F64Param(model_config, "top_p", "1.0")),
     system |-> StreamSystemMessage(messages),
     max_tokens |-> I32Param(model_config, "max_tokens", 2000),
     messages |-> StreamJsonMessages(messages),
     stream |-> TRUE]

StreamRequest(in) ==
    StreamBody(in.messages, in.model_config)
        @@ [url |-> StreamUrl(in.config),
            x_api_key |-> ProviderGet(in.config, "api_key")[1],
            anthropic_version |-> "2023-06-01"]

(***************************************************************************)
(* chat: the future, the network and the token.                            *)
(***************************************************************************)
NoInput == [messages |-> <<>>, model_config |-> <<>>, config |-> <<>>]

NoBody == <<>>

NoToken == [fired |-> FALSE, at |-> "", net |-> ""]

NoResult == [status |-> "none", text |-> <<>>]

\* json_response["content"][0]["text"] of the reply the server of the model gives
ReplyText == <<"r">>

ChatReturn(status, text) ==
    /\ cpc' = "done"
    /\ cres' = [status |-> status, text |-> text]

\* The first poll of the future: the request is built, request.send() is started,
\* and the first select! is polled; a token signalled before that is seen at once,
\* since the request cannot have been answered yet.
ChatBuild ==
    /\ cpc = "build"
    /\ IF ApiKeyPanics(cin.config) \/ BuildPanics(cin.messages)
       THEN /\ ChatReturn("panic", <<>>)
            /\ UNCHANGED <<cbody, cnet>>
       ELSE /\ cbody' = <<ChatRequest(cin)>>
            /\ cnet' = "sending"
            /\ IF ctok.fired
               THEN ChatReturn("err_cancelled", <<>>)
               ELSE cpc' = "request" /\ cres' = cres
    /\ UNCHANGED <<cin, ctok>>
    /\ UNCHANGED sbody
    /\ UNCHANGED avars
    /\ UNCHANGED svars

\* the network, on its own threads: the response's head arrives, or the request fails
ChatNetResponse ==
    /\ cnet = "sending"
    /\ cnet' \in {"head", "send_failed"}
    /\ UNCHANGED <<cpc, cin, cbody, ctok, cres>>
    /\ UNCHANGED sbody
    /\ UNCHANGED avars
    /\ UNCHANGED svars

\* the body arrives in full: JSON with the reply text, JSON without it, or no JSON
ChatNetBody ==
    /\ cnet = "head"
    /\ cnet' \in {"body_text", "body_missing", "body_failed"}
    /\ UNCHANGED <<cpc, cin, cbody, ctok, cres>>
    /\ UNCHANGED sbody
    /\ UNCHANGED avars
    /\ UNCHANGED svars

NetAnswered == cnet \in {"head", "send_failed", "body_text", "body_missing", "body_failed"}

NetComplete == cnet \in {"body_text", "body_missing", "body_failed"}

\* first select!, the arm of request.send(): response?
ChatResponse ==
    /\ cpc = "request"
    /\ NetAnswered
    /\ IF cnet = "send_failed"
       THEN ChatReturn("err_transport", <<>>)
       ELSE cpc' = "json" /\ cres' = cres
    /\ UNCHANGED <<cin, cbody, cnet, ctok>>
    /\ UNCHANGED sbody
    /\ UNCHANGED avars
    /\ UNCHANGED svars

\* first select!, the arm of cancel_token.cancelled()
ChatRequestCancelled ==
    /\ cpc = "request"
    /\ ctok.fired
    /\ ChatReturn("err_cancelled", <<>>)
    /\ UNCHANGED <<cin, cbody, cnet, ctok>>
    /\ UNCHANGED sbody
    /\ UNCHANGED avars
    /\ UNCHANGED svars

\* second select!, the arm of response.json(): json?, then the reply text or
\* "Failed to get content from response"
ChatJson ==
    /\ cpc = "json"
    /\ NetComplete
    /\ IF cnet = "body_text" THEN ChatReturn("ok", ReplyText)
       ELSE IF cnet = "body_missing" THEN ChatReturn("err_missing", <<>>)
       ELSE ChatReturn("err_transport", <<>>)
    /\ UNCHANGED <<cin, cbody, cnet, ctok>>
    /\ UNCHANGED sbody
    /\ UNCHANGED avars
    /\ UNCHANGED svars

\* second select!, the arm of cancel_token.cancelled()
ChatJsonCancelled ==
    /\ cpc = "json"
    /\ ctok.fired
    /\ ChatReturn("err_cancelled", <<>>)
    /\ UNCHANGED <<cin, cbody, cnet, ctok>>
    /\ UNCHANGED sbody
    /\ UNCHANGED avars
    /\ UNCHANGED svars

\* cancel_token.cancel(), by whoever holds the token, at any time
ChatCancel ==
    /\ ~ctok.fired
    /\ ctok' = [fired |-> TRUE, at |-> cpc, net |-> cnet]
    /\ UNCHANGED <<cpc, cin, cbody, cnet, cres>>
    /\ UNCHANGED sbody
    /\ UNCHANGED avars
    /\ UNCHANGED svars

(***************************************************************************)
(* Specifications.                                                         *)
(***************************************************************************)
Ingest(p) ==
    /\ IngestStart(p)
    /\ UNCHANGED svars
    /\ UNCHANGED cvars

IngestAlone(p) ==
    /\ Alone(p)
    /\ IngestStart(p)
    /\ UNCHANGED svars
    /\ UNCHANGED cvars

IngestInsert(p) ==
    /\ IngestCreate(p)
    /\ UNCHANGED svars
    /\ UNCHANGED cvars

\* No chat_stream runs; the attachment table is empty and no ingest has started.
StoreInit ==
    /\ rows = <<>>
    /\ apc = [p \in Procs |-> "idle"]
    /\ areq = [p \in Procs |-> NoReq]
    /\ ares = [p \in Procs |-> NoRes]
    /\ pc = "done"
    /\ frames = <<>>
    /\ wire = <<>>
    /\ buffer = <<>>
    /\ full_text = <<>>
    /\ pending = NoUpdate
    /\ after = ""
    /\ queued = 0
    /\ cancel = [fired |-> FALSE, phase |-> ""]
    /\ sent = <<>>
    /\ decoded = <<>>
    /\ stopAt = 0
    /\ result = "none"
    /\ cpc = "done"
    /\ cin = NoInput
    /\ cbody = NoBody
    /\ cnet = "idle"
    /\ ctok = NoToken
    /\ cres = NoResult
    /\ sbody = <<>>

\* Ingest commands running concurrently on the async runtime.
StoreNext == \E p \in Procs : Ingest(p) \/ IngestInsert(p)

StoreSpec == StoreInit /\ [][StoreNext]_vars

\* Ingest commands called one after the other.
SeqStoreNext == \E p \in Procs : IngestAlone(p) \/ IngestInsert(p)

SeqStoreSpec == StoreInit /\ [][SeqStoreNext]_vars

\* chat_stream has built its request and is about to send it; the server will
\* answer with one of the bodies; no ingest runs.
StreamInit ==
    /\ rows = <<>>
    /\ apc = [p \in Procs |-> "done"]
    /\ areq = [p \in Procs |-> NoReq]
    /\ ares = [p \in Procs |-> NoRes]
    /\ pc = "request"
    /\ frames \in Bodies
    /\ wire = Body(frames)
    /\ buffer = <<>>
    /\ full_text = <<>>
    /\ pending = NoUpdate
    /\ after = ""
    /\ queued = 0
    /\ cancel = [fired |-> FALSE, phase |-> ""]
    /\ sent = <<>>
    /\ decoded = <<>>
    /\ stopAt = 0
    /\ result = "none"
    /\ cpc = "done"
    /\ cin = NoInput
    /\ cbody = NoBody
    /\ cnet = "idle"
    /\ ctok = NoToken
    /\ cres = NoResult
    /\ sbody = <<>>

\* One chat_stream invocation with its transport, its consumer and the token holder.
StreamNext ==
    \/ RequestSent
    \/ RequestFailed
    \/ RequestCancelled
    \/ \E k \in 1..Len(wire) : RecvChunk(k)
    \/ RecvError
    \/ RecvEnd
    \/ RecvCancelled
    \/ SendFailed
    \/ SendDone
    \/ Consume
    \/ Cancel

StreamSpec == StreamInit /\ [][StreamNext]_vars

\* chat_stream is called and the body to come has frames that are passed over.
PassedOverInit ==
    /\ rows = <<>>
    /\ apc = [p \in Procs |-> "done"]
    /\ areq = [p \in Procs |-> NoReq]
    /\ ares = [p \in Procs |-> NoRes]
    /\ pc = "request"
    /\ frames \in PassedOverBodies
    /\ wire = Body(frames)
    /\ buffer = <<>>
    /\ full_text = <<>>
    /\ pending = NoUpdate
    /\ after = ""
    /\ queued = 0
    /\ cancel = [fired |-> FALSE, phase |-> ""]
    /\ sent = <<>>
    /\ decoded = <<>>
    /\ stopAt = 0
    /\ result = "none"
    /\ cpc = "done"
    /\ cin = NoInput
    /\ cbody = NoBody
    /\ cnet = "idle"
    /\ ctok = NoToken
    /\ cres = NoResult
    /\ sbody = <<>>

PassedOverSpec == PassedOverInit /\ [][StreamNext]_vars

\* chat_stream is called and the body to come is one payload in one of its framings.
FramingInit ==
    /\ rows = <<>>
    /\ apc = [p \in Procs |-> "done"]
    /\ areq = [p \in Procs |-> NoReq]
    /\ ares = [p \in Procs |-> NoRes]
    /\ pc = "request"
    /\ frames \in {<<f>> : f \in FramedPayloads}
    /\ wire = Body(frames)
    /\ buffer = <<>>
    /\ full_text = <<>>
    /\ pending = NoUpdate
    /\ after = ""
    /\ queued = 0
    /\ cancel = [fired |-> FALSE, phase |-> ""]
    /\ sent = <<>>
    /\ decoded = <<>>
    /\ stopAt = 0
    /\ result = "none"
    /\ cpc = "done"
    /\ cin = NoInput
    /\ cbody = NoBody
    /\ cnet = "idle"
    /\ ctok = NoToken
    /\ cres = NoResult
    /\ sbody = <<>>

FramingSpec == FramingInit /\ [][StreamNext]_vars

\* chat_stream is called on a transport that stalls: it hands over some of the body
\* and then neither another chunk, nor an error, nor the end of the body.
StallBodies == {<<FrameDeltaA, f>> : f \in FrameSet}

StallInit ==
    /\ rows = <<>>
    /\ apc = [p \in Procs |-> "done"]
    /\ areq = [p \in Procs |-> NoReq]
    /\ ares = [p \in Procs |-> NoRes]
    /\ pc = "request"
    /\ frames \in StallBodies
    /\ wire = Body(frames)
    /\ buffer = <<>>
    /\ full_text = <<>>
    /\ pending = NoUpdate
    /\ after = ""
    /\ queued = 0
    /\ cancel = [fired |-> FALSE, phase |-> ""]
    /\ sent = <<>>
    /\ decoded = <<>>
    /\ stopAt = 0
    /\ result = "none"
    /\ cpc = "done"
    /\ cin = NoInput
    /\ cbody = NoBody
    /\ cnet = "idle"
    /\ ctok = NoToken
    /\ cres = NoResult
    /\ sbody = <<>>

\* the last byte of the body never comes, and the consumer keeps its receiver
StallNext ==
    \/ RequestSent
    \/ RequestCancelled
    \/ \E k \in 1..(Len(wire) - 1) : RecvChunk(k)
    \/ RecvCancelled
    \/ SendDone
    \/ Consume
    \/ Cancel

\* the runtime polls a future whose token or channel woke it, and the consumer
\* goes on receiving
StallSpec ==
    /\ StallInit
    /\ [][StallNext]_vars
    /\ WF_vars(RecvCancelled)
    /\ WF_vars(SendDone)
    /\ WF_vars(Consume)

\* chat is called with one of the inputs; no ingest and no chat_stream runs.
ChatInit ==
    /\ rows = <<>>
    /\ apc = [p \in Procs |-> "done"]
    /\ areq = [p \in Procs |-> NoReq]
    /\ ares = [p \in Procs |-> NoRes]
    /\ pc = "done"
    /\ frames = <<>>
    /\ wire = <<>>
    /\ buffer = <<>>
    /\ full_text = <<>>
    /\ pending = NoUpdate
    /\ after = ""
    /\ queued = 0
    /\ cancel = [fired |-> FALSE, phase |-> ""]
    /\ sent = <<>>
    /\ decoded = <<>>
    /\ stopAt = 0
    /\ result = "none"
    /\ cpc = "build"
    /\ cin \in ChatInputs
    /\ cbody = NoBody
    /\ cnet = "idle"
    /\ ctok = NoToken
    /\ cres = NoResult
    /\ sbody = <<>>

\* One chat invocation with the network and the token's holder.
ChatNext ==
    \/ ChatBuild
    \/ ChatNetResponse
    \/ ChatNetBody
    \/ ChatResponse
    \/ ChatRequestCancelled
    \/ ChatJson
    \/ ChatJsonCancelled
    \/ ChatCancel

ChatSpec == ChatInit /\ [][ChatNext]_vars

\* chat_stream, called with the arguments chat is called with, up to its request
StreamBuild ==
    /\ sbody = <<>>
    /\ cin # NoInput
    /\ LET api_key == ProviderGet(cin.config, "api_key")
           unmatched == \E i \in 1..Len(cin.messages) :
                            /\ cin.messages[i].message_type # "system"
                            /\ TurnPanics(cin.messages[i])
       IN  sbody' = <<IF api_key = <<>> \/ unmatched
                      THEN [status |-> "panic", request |-> <<>>]
                      ELSE [status |-> "built", request |-> <<StreamRequest(cin)>>]>>
    /\ UNCHANGED <<cpc, cin, cbody, cnet, ctok, cres>>
    /\ UNCHANGED avars
    /\ UNCHANGED svars

\* chat and chat_stream are each called with the same arguments and build their
\* requests.
BuildNext ==
    \/ ChatBuild
    \/ StreamBuild

BuildSpec == ChatInit /\ [][BuildNext]_vars

Init ==
    StoreInit \/ StreamInit \/ PassedOverInit \/ FramingInit \/ StallInit \/ ChatInit

Next == StoreNext \/ StreamNext \/ ChatNext \/ StreamBuild

Spec == Init /\ [][Next]_vars

(***************************************************************************)
(* What the claims are stated with.                                        *)
(***************************************************************************)
\* the text fragment a frame of the model carries, read off the frame itself
Fragment(f) ==
    IF f = FrameDeltaA THEN <<"a">>
    ELSE IF f = FrameDeltaWide THEN <<Utf8Lead, Utf8Cont>>
    ELSE <<>>

TextFrames == {FrameDeltaA, FrameDeltaWide}

RECURSIVE Fragments(_)
Fragments(fs) == IF fs = <<>> THEN <<>> ELSE Fragment(Head(fs)) \o Fragments(Tail(fs))

\* text-delta frames ended by one terminal message_stop frame
WellFormed(fs) ==
    /\ Len(fs) >= 2
    /\ Last(fs) = FrameStop
    /\ \A i \in 1..(Len(fs) - 1) : fs[i] \in TextFrames

\* a frame that is neither a delta frame nor an error frame between two text deltas
Sandwich(fs) ==
    /\ Len(fs) >= 3
    /\ fs[1] \in TextFrames
    /\ fs[2] = FrameCorrupt
    /\ fs[3] \in TextFrames

\* the text of the first n text-delta frames of a body, in order
RECURSIVE FirstTexts(_, _)
FirstTexts(fs, n) ==
    IF n = 0 \/ fs = <<>> THEN <<>>
    ELSE IF Head(fs) \in TextFrames
    THEN Fragment(Head(fs)) \o FirstTexts(Tail(fs), n - 1)
    ELSE FirstTexts(Tail(fs), n)

NonFinalsUpTo(i) == Cardinality({j \in 1..i : ~sent[j].is_final})

\* the failures an ingest call reports
IngestFailures == {"NotFound", "UnsupportedType", "Persistence"}

\* the image subtypes the ingest supports
ClaimedImageTypes == {"image/jpeg", "image/png", "image/gif", "image/webp"}

\* the turns of a conversation that are not system turns, in order
RECURSIVE WithoutSystem(_)
WithoutSystem(ms) ==
    IF ms = <<>> THEN <<>>
    ELSE IF Head(ms).message_type = "system" THEN WithoutSystem(Tail(ms))
    ELSE <<Head(ms)>> \o WithoutSystem(Tail(ms))

\* the text of the first system turn of a conversation, <<>> when there is none
RECURSIVE FirstSystem(_)
FirstSystem(ms) ==
    IF ms = <<>> THEN <<>>
    ELSE IF Head(ms).message_type = "system" THEN <<Head(ms).content>>
    ELSE FirstSystem(Tail(ms))

\* what a configured value is as a float and as an integer, by the option's name
ClaimedF64(opt, default) ==
    CASE opt \in {"absent", "novalue", "abc"} -> default
      [] opt = "7" -> "7.0"
      [] opt = "3000000000" -> "3000000000.0"
      [] OTHER -> opt

ClaimedI32(opt, default) == IF opt = "7" THEN 7 ELSE default

\* how a key is configured in a model_config that names it at most once
OptionOf(model_config, key) ==
    LET idx == {i \in 1..Len(model_config) : model_config[i].name = key}
    IN  IF idx = {} THEN "absent"
        ELSE LET e == model_config[CHOOSE i \in idx : TRUE]
             IN  IF e.value = <<>> THEN "novalue" ELSE e.value[1]

IsDataUri(content) ==
    Len(content) >= 3 /\ content[1] = "data:" /\ content[3] = ";base64,"

HasImage(t) ==
    \E i \in 1..Len(t.attachment_list) : t.attachment_list[i].attachment_type = "Image"

ImagesAreDataUris(t) ==
    \A i \in 1..Len(t.attachment_list) :
        t.attachment_list[i].attachment_type = "Image" =>
            IsDataUri(t.attachment_list[i].attachment_content)

\* one image block per Image attachment, read off the data-URI
RECURSIVE ClaimedBlocks(_)
ClaimedBlocks(l) ==
    IF l = <<>> THEN <<>>
    ELSE IF Head(l).attachment_type = "Image"
    THEN <<[type |-> "image",
            source |-> [type |-> "base64",
                        media_type |-> Head(l).attachment_content[2],
                        data |-> Drop(Head(l).attachment_content, 3)],
            text |-> ""]>> \o ClaimedBlocks(Tail(l))
    ELSE ClaimedBlocks(Tail(l))

Finals == {i \in 1..Len(sent) : sent[i].is_final}

RowsWithContent(content) == {i \in 1..Len(rows) : rows[i].attachment_content = content}

\* the frames of a body that make chat_stream send an update
Carrying(fs) == Cardinality({i \in 1..Len(fs) : fs[i] \in TextFrames \cup {FrameStop}})

\* what each frame of the model is to the decoder, read off the frame itself
ClaimedFrameKind(f) ==
    CASE f \in TextFrames -> "text"
      [] f = FrameStop -> "stop"
      [] f = FrameError -> "error"
      [] f = FrameMessageDelta -> "delta_without_text"
      [] f = FramePing -> "unknown"
      [] OTHER -> "undecodable"

HasSeparator(s) == \E i \in 1..(Len(s) - 1) : s[i] = LF /\ s[i + 1] = LF

\* the payload of a frame: what is left without event line, line feed and "data: "
PayloadOf(f) == SelectSeq(f, LAMBDA c : c \notin EventNames \cup {LF, DataMarker})

\* what each payload of the model is to the decoder, read off the payload
ClaimedPayloadKind(payload) ==
    CASE payload = <<DeltaOpen, "a", DeltaClose>> -> "text"
      [] payload = <<DeltaOpen, Utf8Lead, Utf8Cont, DeltaClose>> -> "text"
      [] payload = <<StopJson>> -> "stop"
      [] payload = <<MessageDeltaJson>> -> "delta_without_text"
      [] payload = <<PingJson>> -> "unknown"
      [] payload = <<ErrorJson>> -> "unknown"
      [] OTHER -> "undecodable"

ClaimedPayloadText(payload) ==
    IF ClaimedPayloadKind(payload) = "text"
    THEN SubSeq(payload, 2, Len(payload) - 1) ELSE <<>>

HasKey(config, key) == \E i \in 1..Len(config) : config[i].name = key

NoImages(ms) == \A i \in 1..Len(ms) : ~HasImage(ms[i])

(***************************************************************************)
(* The claims.                                                             *)
(***************************************************************************)

\* C1: whatever the interleaving of ingest calls, the attachment table never holds
\* two rows with the same content_hash.
C1_OneRowPerHash ==
    \A i, j \in 1..Len(rows) :
        rows[i].attachment_hash = rows[j].attachment_hash => i = j

\* C2: for a body of text-delta frames ended by message_stop, delivered in full
\* with no transport failure, no dropped receiver and no cancellation, every
\* chunking ends in success with a last update that is final and carries the
\* concatenation of all fragments.
C2_AnyChunkingSameText ==
    ( /\ WellFormed(frames)
      /\ pc = "done"
      /\ ~Cancelled
      /\ result \notin {"err_transport", "err_send"}
      /\ ~(result = "ok" /\ wire # <<>>) )
    => ( /\ result = "ok"
         /\ sent # <<>>
         /\ Last(sent) = Update(Fragments(frames), TRUE) )

\* C3: at most one update with is_final=true is sent, and no update follows it.
C3_OneFinalLast == \A i \in 1..Len(sent) : sent[i].is_final => i = Len(sent)

\* C4: once the token is signalled in the streaming phase, the one update that is
\* still sent is the final one: no non-final update, from frames already received
\* or still arriving, is sent after the signal.
C4_OnlyFinalAfterCancel ==
    [][ (cancel.fired /\ cancel.phase = "stream" /\ sent' # sent)
        => Last(sent').is_final ]_vars

\* C5: a frame that decodes neither as a delta nor as an error frame, between two
\* text deltas, does not stop the decoding: once the bytes of the three frames are
\* in, all three have been extracted, the middle one absorbed, and the accumulated
\* text is the two valid fragments; when such a body ends, the last update carries
\* exactly that text.
C5_CorruptFrameAbsorbed ==
    Sandwich(frames) =>
        LET two == Fragment(frames[1]) \o Fragment(frames[3])
            rest == Len(Body(frames)) - Len(Body(SubSeq(frames, 1, 3)))
        IN  /\ (pc = "recv" /\ Len(wire) <= rest) => Len(decoded) >= 3
            /\ Len(decoded) >= 3 =>
                   decoded[1] = "text" /\ decoded[2] = "undecodable" /\ decoded[3] = "text"
            /\ (Len(decoded) = 3 /\ pc # "done") => full_text = two
            /\ (Len(frames) = 3 /\ pc = "done" /\ result = "ok" /\ wire = <<>>) =>
                   /\ Len(sent) >= 2
                   /\ Last(sent).cumulative_text = two
                   /\ sent[1].cumulative_text = Fragment(frames[1])

C5_Witness ==
    /\ frames = <<FrameDeltaA, FrameCorrupt, FrameDeltaWide>>
    /\ pc = "done"
    /\ result = "ok"
    /\ wire = <<>>
    /\ decoded = <<"text", "undecodable", "text">>
    /\ sent = <<Update(<<"a">>, FALSE), Update(<<"a", Utf8Lead, Utf8Cont>>, FALSE)>>

\* C6: when ingest calls do not overlap, two successful calls with the same stored
\* content, by whichever routes, return the same id and the table holds exactly
\* one row with that content.
C6_SequentialIdempotent ==
    \A p, q \in Procs :
        ( /\ ares[p].status = "ok"
          /\ ares[q].status = "ok"
          /\ areq[p].content = areq[q].content )
        => ( /\ ares[p].id = ares[q].id
             /\ Cardinality(RowsWithContent(areq[p].content)) = 1
             /\ \A i \in RowsWithContent(areq[p].content) : rows[i].id = ares[p].id )

C6_Witness ==
    \E p, q \in Procs :
        /\ p # q
        /\ ares[p].status = "ok"
        /\ ares[q].status = "ok"
        /\ areq[p].route = "url"
        /\ areq[q].route = "content"
        /\ areq[p].content = areq[q].content
        /\ ares[p].id = ares[q].id
        /\ Len(rows) = 1

\* C7: every row's content_hash is the digest of the row's stored content, the full
\* data-URI string for an image read from a path and the decoded text for a text
\* file, whichever route created the row.
C7_HashOfStoredContent ==
    \A i \in 1..Len(rows) :
        /\ rows[i].attachment_hash = Digest(rows[i].attachment_content)
        /\ (rows[i].attachment_url \in Paths /\ rows[i].attachment_type = "Image") =>
               /\ rows[i].attachment_content =
                      DataUri(MimeOf(rows[i].attachment_url).full,
                              Base64(FileBytes(rows[i].attachment_url)))
               /\ rows[i].attachment_hash.of[1] = "data:"
        /\ (rows[i].attachment_url \in Paths /\ rows[i].attachment_type = "Text") =>
               rows[i].attachment_content = FileText(rows[i].attachment_url)

C7_Witness ==
    \E i, j \in 1..Len(rows) :
        /\ rows[i].attachment_url \in Paths
        /\ rows[i].attachment_type = "Image"
        /\ rows[j].attachment_url \in InlineNames
        /\ rows[j].attachment_hash = Digest(rows[j].attachment_content)

\* C8: cancellation never makes chat_stream return an error: the call never
\* returns "Request cancelled".
C8_CancelNeverAnError == result # "err_cancelled"

\* C9: once the terminal marker is decoded, chat_stream is sending its final update
\* or has returned; it extracts no further frame and awaits no further chunk.
C9_StopEndsTheCall ==
    stopAt > 0 =>
        /\ Len(decoded) = stopAt
        /\ \/ pc = "send" /\ pending.is_final
           \/ pc = "done" /\ result \in {"ok", "err_send"}

\* C10: every successful return is preceded by an update with is_final=true.
C10_OkHasFinal == result = "ok" => Finals # {}

\* C11: the updates on the channel grow monotonically: every update's text has the
\* text of the update before it as a prefix, the k-th non-final update carries the
\* fragments of the first k text-delta frames of the body (so each adds exactly one
\* frame's fragment), and a final update repeats the text of the update before it.
C11_UpdatesGrowByOneFragment ==
    \A i \in 1..Len(sent) :
        LET prev == IF i = 1 THEN <<>> ELSE sent[i - 1].cumulative_text
            cur == sent[i].cumulative_text
        IN  /\ Len(prev) <= Len(cur)
            /\ SubSeq(cur, 1, Len(prev)) = prev
            /\ cur = FirstTexts(frames, NonFinalsUpTo(i))
            /\ sent[i].is_final => cur = prev

C11_Witness ==
    /\ frames = <<FrameDeltaA, FrameDeltaWide, FrameStop>>
    /\ Len(sent) = 3
    /\ sent[1] = [cumulative_text |-> <<"a">>, is_final |-> FALSE]
    /\ sent[2] = [cumulative_text |-> <<"a", Utf8Lead, Utf8Cont>>, is_final |-> FALSE]
    /\ sent[3] = [cumulative_text |-> <<"a", Utf8Lead, Utf8Cont>>, is_final |-> TRUE]

\* C12: cancellation is raced against the send too: when the token is signalled
\* and chat_stream is suspended in a send on a full channel, chat_stream has a step
\* that takes it out of the send without the consumer doing anything (neither
\* receiving nor dropping the receiver), so it does not stay blocked.
C12_CancelUnblocksSend ==
    (pc = "send" /\ cancel.fired /\ queued = ChanCap) =>
        ENABLED (StreamNext /\ pc' # "send" /\ result' # "err_send")

\* C14: a send that fails ends the call at once with an error: the step that
\* leaves a send without delivering its update returns the send error, extracts no
\* frame, takes no chunk and puts nothing on the channel, and nothing is extracted,
\* taken or sent after it.
C14_ClosedChannelAborts ==
    [][ /\ (pc = "send" /\ sent' = sent /\ pc' # "send") =>
              /\ pc' = "done"
              /\ result' = "err_send"
              /\ decoded' = decoded
              /\ wire' = wire
              /\ queued' <= queued
        /\ result = "err_send" =>
              /\ pc' = "done"
              /\ sent' = sent
              /\ decoded' = decoded
              /\ wire' = wire
              /\ result' = result ]_vars

C14_Witness ==
    /\ result = "err_send"
    /\ pc = "done"
    /\ sent # <<>>
    /\ Len(decoded) < Len(frames)
    /\ wire # <<>>

\* C15: a transport error while the body is read ends the call with that error;
\* the step that returns it sends nothing, and the updates delivered before it stay
\* as they are, with no final update added.
C15_TransportErrorNoSentinel ==
    [][ /\ (pc = "recv" /\ result' = "err_transport") =>
              /\ pc' = "done"
              /\ sent' = sent
        /\ result = "err_transport" =>
              /\ pc' = "done"
              /\ sent' = sent
              /\ result' = result ]_vars

C15_Witness ==
    /\ result = "err_transport"
    /\ pc = "done"
    /\ sent = <<[cumulative_text |-> <<"a">>, is_final |-> FALSE]>>
    /\ decoded = <<"text">>

\* C16: an ingest call that fails with NotFound, UnsupportedType or Persistence
\* returns an error and no id, and the step in which it fails leaves the table as
\* it was; a call on a path that does not exist fails with NotFound; a create that
\* does not add its row ends the call with an error, and a call that has failed
\* stays failed: nothing is attempted again.
C16_FailedIngestChangesNothing ==
    [][ \A p \in Procs :
          /\ (ares[p].status = "none" /\ ares'[p].status \in IngestFailures) =>
                /\ rows' = rows
                /\ ares'[p].id = 0
                /\ apc'[p] = "done"
          /\ (apc[p] = "idle" /\ apc'[p] # "idle" /\ areq'[p].route = "url"
                /\ areq'[p].origin = "gone.png") =>
                ares'[p].status = "NotFound"
          /\ (apc[p] = "create" /\ apc'[p] # "create" /\ rows' = rows) =>
                /\ apc'[p] = "done"
                /\ ares'[p].status \notin {"ok", "none"}
          /\ ares[p].status \in IngestFailures =>
                /\ ares'[p] = ares[p]
                /\ apc'[p] = "done" ]_vars

C16_Witness ==
    \E p, q \in Procs :
        /\ ares[p].status = "ok"
        /\ ares[q].status = "Persistence"
        /\ apc[q] = "done"
        /\ areq[q].hash = Digest(areq[q].content)
        /\ areq[q].content # areq[p].content
        /\ Len(rows) = 1

C13_ChatFirstWins ==
    (cpc = "done" /\ cres.status # "panic") =>
        /\ (ctok.fired /\ ctok.at # "done" /\ ctok.net \in {"idle", "sending", "head"}) =>
               /\ cres.status \in {"err_cancelled", "err_transport"}
               /\ cres.text = <<>>
        /\ (~ctok.fired \/ ctok.at = "done") =>
               /\ cres.status \in {"ok", "err_missing", "err_transport"}
               /\ cres.status = "ok" => (cres.text = ReplyText /\ cnet = "body_text")
               /\ cres.status = "err_missing" => cnet = "body_missing"

\* C18: in the built request temperature, top_p and max_tokens are the parsed
\* configured value when the key has a value that parses, and the defaults 0.75,
\* 1.0 and 2000 when the key is absent, has no value or does not parse.
C18_ConfiguredOrDefault ==
    cbody # <<>> =>
        /\ cbody[1].temperature =
               ClaimedF64(OptionOf(cin.model_config, "temperature"), "0.75")
        /\ cbody[1].top_p = ClaimedF64(OptionOf(cin.model_config, "top_p"), "1.0")
        /\ cbody[1].max_tokens =
               ClaimedI32(OptionOf(cin.model_config, "max_tokens"), 2000)

\* C19: the built request carries the text of the first system turn in its system
\* field, nothing there when the conversation has no system turn, and its messages
\* are the turns that are not system turns, in their order, none of them with the
\* system role.
C19_SystemTurnSeparated ==
    cbody # <<>> =>
        LET ws == WithoutSystem(cin.messages)
            ms == cbody[1].messages
        IN  /\ cbody[1].system = FirstSystem(cin.messages)
            /\ Len(ms) = Len(ws)
            /\ \A i \in 1..Len(ms) :
                   /\ ms[i].role = ws[i].message_type
                   /\ ms[i].role # "system"
                   /\ IF ws[i].attachment_list = <<>>
                      THEN ms[i].content.string = <<ws[i].content>>
                      ELSE Last(ms[i].content.array[1]).text = ws[i].content

C19_Witness ==
    /\ cin.messages = <<Turn("user", "t1", <<>>), Turn("system", "t2", <<>>),
                        Turn("system", "t1", <<>>)>>
    /\ cbody # <<>>
    /\ cbody[1].system = <<"t2">>
    /\ Len(cbody[1].messages) = 1
    /\ cbody[1].messages[1].role = "user"

\* C20: once chat has gone through building its request, a turn with Image
\* attachments, each holding a data-URI, is on the wire as an array: one image
\* block per Image attachment, in order, with the media type and the payload of
\* the data-URI, then one text block with the turn's text; other attachments add
\* no block.
C20_ImageBlocksThenText ==
    cpc # "build" =>
        LET ws == WithoutSystem(cin.messages)
        IN  \A k \in 1..Len(ws) :
                (HasImage(ws[k]) /\ ImagesAreDataUris(ws[k])) =>
                    /\ cbody # <<>>
                    /\ Len(cbody[1].messages) = Len(ws)
                    /\ cbody[1].messages[k].content.string = <<>>
                    /\ cbody[1].messages[k].content.array =
                           <<ClaimedBlocks(ws[k].attachment_list)
                               \o <<[type |-> "text",
                                     source |-> [type |-> "", media_type |-> "",
                                                 data |-> <<>>],
                                     text |-> ws[k].content]>>>>

\* C30: a chunk whose bytes are not valid UTF-8 on their own ends chat_stream with
\* the decoding error in the step that takes it: nothing of the chunk is taken off
\* the transport into the buffer, no frame is extracted, no update is sent then or
\* later.  Only chunks that are valid on their own are ever appended: never one
\* that ends inside a character or starts inside one, although the next chunk
\* would complete the character.
C30_InvalidChunkAborts ==
    [][ /\ (pc = "recv" /\ wire' # wire) =>
              LET k == Len(wire) - Len(wire')
              IN  /\ k >= 1
                  /\ wire[1] # Utf8Cont
                  /\ wire[k] # Utf8Lead
        /\ (result # "err_utf8" /\ result' = "err_utf8") =>
              /\ pc = "recv"
              /\ pc' = "done"
              /\ wire' = wire
              /\ decoded' = decoded
              /\ sent' = sent
              /\ queued' = queued
        /\ result = "err_utf8" =>
              /\ pc' = "done"
              /\ result' = result
              /\ wire' = wire
              /\ decoded' = decoded
              /\ sent' = sent ]_vars

C30_Witness ==
    /\ result = "err_utf8"
    /\ pc = "done"
    /\ frames = <<FrameDeltaA, FrameDeltaWide>>
    /\ decoded = <<"text">>
    /\ sent = <<Update(<<"a">>, FALSE)>>
    /\ wire = Body(<<FrameDeltaWide>>)

\* C29: when the body ends, what is left in the buffer is dropped: the step that
\* ends the call at the end of the body extracts no frame and sends nothing, and
\* when the last frame came without its blank line, that frame is never decoded
\* and adds no update, whether it is a text delta or the terminal marker: the
\* frames extracted and the updates sent are those of the frames before it.
C29_RemainderDiscarded ==
    /\ []( (result = "ok" /\ wire = Separator /\ ~Cancelled) =>
             /\ Len(decoded) <= Len(frames) - 1
             /\ stopAt = 0 => Len(decoded) = Len(frames) - 1
             /\ Len(sent) = Carrying(SubSeq(frames, 1, Len(decoded)))
             /\ \A i \in 1..Len(sent) :
                    sent[i].cumulative_text =
                        FirstTexts(SubSeq(frames, 1, Len(frames) - 1), NonFinalsUpTo(i)) )
    /\ [][ (pc = "recv" /\ pc' = "done" /\ result' = "ok") =>
               /\ sent' = sent
               /\ decoded' = decoded
               /\ queued' = queued ]_vars

C29_Witness ==
    /\ frames = <<FrameDeltaA, FrameStop>>
    /\ pc = "done"
    /\ result = "ok"
    /\ ~Cancelled
    /\ wire = Separator
    /\ decoded = <<"text">>
    /\ sent = <<Update(<<"a">>, FALSE)>>

\* C23: frame extraction neither loses nor duplicates input: while chat_stream
\* runs, the bytes received so far are the frames extracted so far, each followed
\* by its blank line, followed by the buffer; the frames extracted are the first
\* frames of the body, once each and in arrival order; and when chat_stream waits
\* for the next chunk with no terminal marker seen, the buffer holds no blank line.
C23_ExtractionLossless ==
    LET received == SubSeq(Body(frames), 1, Len(Body(frames)) - Len(wire))
        extracted == SubSeq(frames, 1, Len(decoded))
    IN  /\ Len(decoded) <= Len(frames)
        /\ \A i \in 1..Len(decoded) : decoded[i] = ClaimedFrameKind(frames[i])
        /\ pc # "done" => received = Body(extracted) \o buffer
        /\ (pc = "recv" /\ stopAt = 0) => ~HasSeparator(buffer)

C23_Witness ==
    /\ frames = <<FrameDeltaA, FrameError, FrameDeltaWide>>
    /\ pc = "recv"
    /\ decoded = <<"text", "error">>
    /\ buffer = <<DataMarker, DeltaOpen>>
    /\ Len(wire) = 5

\* C24: ingest never modifies or removes a row: in every step the rows there are
\* stay as they are, field by field, and the table only grows; a call that finds a
\* row with its content_hash returns that row's id in a step that leaves the table
\* unchanged, also when the caller's origin or declared kind differ from the row's.
C24_RowsNeverChange ==
    [][ /\ Len(rows') >= Len(rows)
        /\ SubSeq(rows', 1, Len(rows)) = rows
        /\ \A p \in Procs :
              (apc[p] = "idle" /\ ares'[p].status = "ok") => rows' = rows ]_vars

C24_Witness ==
    \E p \in Procs, i \in 1..Len(rows) :
        /\ ares[p] = Ok(rows[i].id)
        /\ areq[p].hash = rows[i].attachment_hash
        /\ areq[p].origin # rows[i].attachment_url
        /\ areq[p].kind # rows[i].attachment_type

\* C22: an error frame, an undecodable frame, a delta without text and a frame of
\* an event that is not the terminal marker leave the accumulated text as it is and
\* cause no update, and the decoding goes on with the next frame: each frame is
\* extracted with its own decode outcome, the accumulated text is the fragments of
\* the text deltas extracted, the updates sent are no more than the text deltas
\* extracted (and the cancellation's final), each carrying the text deltas before
\* it, and once the whole body is in, every frame has been extracted.
C22_PassedOverFramesAddNothing ==
    LET extracted == SubSeq(frames, 1, Len(decoded))
    IN  /\ Len(decoded) <= Len(frames)
        /\ \A i \in 1..Len(decoded) : decoded[i] = ClaimedFrameKind(frames[i])
        /\ pc # "done" => full_text = Fragments(extracted)
        /\ Len(sent) <= Carrying(extracted) + (IF Cancelled THEN 1 ELSE 0)
        /\ \A i \in 1..Len(sent) :
               sent[i].cumulative_text = FirstTexts(frames, NonFinalsUpTo(i))
        /\ (pc = "recv" /\ wire = <<>>) => Len(decoded) = Len(frames)

C22_Witness ==
    /\ frames = <<FrameMessageDelta, FramePing, FrameDeltaA>>
    /\ pc = "recv"
    /\ wire = <<>>
    /\ decoded = <<"delta_without_text", "unknown", "text">>
    /\ full_text = <<"a">>
    /\ sent = <<Update(<<"a">>, FALSE)>>

C26_StalledUntilCancelled ==
    /\ []( (pc = "recv" /\ ~Cancelled /\ Len(wire) = 1) =>
             ~ENABLED (StallNext /\ <<pc, wire, buffer, sent, result>>' #
                                        <<pc, wire, buffer, sent, result>>) )
    /\ [](result = "ok" => (Cancelled /\ Finals # {}))
    /\ ((Cancelled /\ pc \in {"recv", "send"}) ~> pc = "done")

C26_Witness ==
    /\ frames = <<FrameDeltaA, FrameDeltaWide>>
    /\ pc = "done"
    /\ result = "ok"
    /\ cancel = [fired |-> TRUE, phase |-> "stream"]
    /\ Len(wire) = 1
    /\ decoded = <<"text">>
    /\ sent = <<Update(<<"a">>, FALSE), Update(<<"a">>, TRUE)>>

\* C25: once chat has gone through building its request, a turn whose attachments
\* are all non-image is on the wire exactly as the same turn without attachments:
\* its content is the plain text value.
C25_NonImageLikePlain ==
    cpc # "build" =>
        LET ws == WithoutSystem(cin.messages)
        IN  \A k \in 1..Len(ws) :
                (ws[k].attachment_list # <<>> /\ ~HasImage(ws[k])) =>
                    /\ cbody # <<>>
                    /\ Len(cbody[1].messages) = Len(ws)
                    /\ cbody[1].messages[k] =
                           [role |-> ws[k].message_type,
                            content |-> [string |-> <<ws[k].content>>, array |-> <<>>]]

\* C27: building the request completes without a crash whichever of the keys are
\* absent from the configs: once chat has gone through building (for turns without
\* images), it has not crashed and there is a request; without an endpoint the
\* request goes to the default endpoint, and without a model its model field is
\* empty; an absent credential does not end the call before the request is sent.
C27_AbsentKeysNoCrash ==
    (cpc # "build" /\ NoImages(cin.messages)) =>
        /\ cres.status # "panic"
        /\ cbody # <<>>
        /\ ~HasKey(cin.config, "endpoint") =>
               cbody[1].url = <<"https://api.anthropic.com", "/v1/messages">>
        /\ OptionOf(cin.model_config, "model") \in {"absent", "novalue"} =>
               cbody[1].model = <<>>

\* C21: for the same turns and the same configs, chat and chat_stream build the
\* same request: the same URL, the same headers, the same model, temperature,
\* top_p, system, max_tokens and messages; only the stream flag differs, false for
\* chat and true for chat_stream.  If one of them crashes while building, so does
\* the other.
C21_SameRequestButStream ==
    (cpc # "build" /\ sbody # <<>>) =>
        /\ cres.status = "panic" <=> sbody[1].status = "panic"
        /\ cbody # <<>> =>
               /\ cbody[1].stream = FALSE
               /\ sbody[1].request = <<[cbody[1] EXCEPT !.stream = TRUE]>>

C21_Witness ==
    /\ cpc = "request"
    /\ cbody # <<>>
    /\ sbody # <<>>
    /\ sbody[1].status = "built"
    /\ cbody[1].url = <<"https://proxy.example", "/v1/messages">>
    /\ sbody[1].request[1].stream
    /\ HasKey(cin.config, "endpoint")
    /\ Last(ProviderGet(cin.config, "endpoint")[1]) = "/"

=============================================================================
